---- MODULE Spec2Model ----
(***************************************************************************)
(* Model of backend/blocks/basic.py: the eleven basic blocks of the        *)
(* AutoGPT platform backend.  A block's run() is an async generator that   *)
(* yields (output name, value) events; an invocation is modelled as one    *)
(* action that records the whole event stream, the exception that escaped  *)
(* the generator (if any) and the heap of the containers it touched.       *)
(*                                                                         *)
(* Python values are records of one uniform shape:                         *)
(*   t  the type tag ("none", "bool", "int", "str", "list", "dict",       *)
(*      "obj" (MockObject), "method" (a bound builtin method),            *)
(*      "ref" (a reference to a heap container),                          *)
(*      "coerced" (an opaque result of the conversion collaborator))      *)
(*   n  the number of an int / bool, the address of a ref                  *)
(*   s  the text of a str, the name of a method, the target of a coerced   *)
(*   l  the items of a list                                                *)
(*   d  the items of a dict (keys are text), the attributes of an obj      *)
(***************************************************************************)
EXTENDS Integers, Sequences, FiniteSets, TLC

VARIABLES pc, block, input_data, events, raised, heap, heap0

vars == <<pc, block, input_data, events, raised, heap, heap0>>

----------------------------------------------------------------------------
(* Bounds *)

\* longest list handed to the list blocks
MaxLen == 3
\* longest list handed to the dictionary lookup
MaxLookupLen == 2

----------------------------------------------------------------------------
(* Python values *)

EmptyMap == [x \in {} |-> x]

PyNone == [t |-> "none", n |-> 0, s |-> "", l |-> <<>>, d |-> EmptyMap]

PyInt(i) == [t |-> "int", n |-> i, s |-> "", l |-> <<>>, d |-> EmptyMap]

PyBool(b) == [t |-> "bool", n |-> IF b THEN 1 ELSE 0, s |-> "", l |-> <<>>, d |-> EmptyMap]

PyStr(x) == [t |-> "str", n |-> 0, s |-> x, l |-> <<>>, d |-> EmptyMap]

PyList(items) == [t |-> "list", n |-> 0, s |-> "", l |-> items, d |-> EmptyMap]

PyDict(f) == [t |-> "dict", n |-> 0, s |-> "", l |-> <<>>, d |-> f]

\* MockObject(**kwargs): an object whose attributes are the keyword arguments
MockObject(attrs) == [t |-> "obj", n |-> 0, s |-> "", l |-> <<>>, d |-> attrs]

\* a bound builtin method, e.g. {}.keys
Method(self, name) == [t |-> "method", n |-> 0, s |-> name, l |-> <<self>>, d |-> EmptyMap]

\* a reference to the heap container at address a
Ref(a) == [t |-> "ref", n |-> a, s |-> "", l |-> <<>>, d |-> EmptyMap]

SeqsUpTo(S, n) == UNION {[1..m -> S] : m \in 0..n}

DictsOver(K, V) == UNION {[ks -> V] : ks \in SUBSET K}

\* bool(v)
Truthy(v) ==
    CASE v.t = "none" -> FALSE
      [] v.t \in {"bool", "int"} -> v.n # 0
      [] v.t = "str" -> v.s # ""
      [] v.t = "list" -> Len(v.l) > 0
      [] v.t = "dict" -> DOMAIN v.d # {}
      [] OTHER -> TRUE

\* a or b
PyOr(a, b) == IF Truthy(a) THEN a ELSE b

\* a == b on the modelled values: bool is a subclass of int, so True == 1
PyEq(a, b) ==
    IF a.t \in {"bool", "int"} /\ b.t \in {"bool", "int"}
    THEN a.n = b.n
    ELSE a = b

\* seq[lo:hi] for 0-based bounds already inside 0..len
Slice(seq, lo, hi) == [i \in 1..(IF hi > lo THEN hi - lo ELSE 0) |-> seq[lo + i]]

\* the index a slice bound denotes: negative bounds count from the end and
\* every bound is clamped into 0..len
ClampIndex(len, i) ==
    LET j == IF i < 0 THEN i + len ELSE i
    IN IF j < 0 THEN 0 ELSE IF j > len THEN len ELSE j

\* seq[:pos]
SliceTo(seq, pos) == Slice(seq, 0, ClampIndex(Len(seq), pos))

\* seq[pos:]
SliceFrom(seq, pos) == Slice(seq, ClampIndex(Len(seq), pos), Len(seq))

\* an event of the output stream
Event(name, value) == [name |-> name, value |-> value]

\* the result of a routine: the events it yielded and the exception that
\* escaped it ("" when it returned)
Yielded(evs) == [events |-> evs, raised |-> ""]

Raised(evs, exc) == [events |-> evs, raised |-> exc]

----------------------------------------------------------------------------
(* Output schemas *)

Blocks ==
    {"FileStoreBlock", "StoreValueBlock", "PrintToConsoleBlock",
     "FindInDictionaryBlock", "AddToDictionaryBlock", "AddToListBlock",
     "FindInListBlock", "NoteBlock", "CreateDictionaryBlock",
     "CreateListBlock", "UniversalTypeConverterBlock"}

\* the field names of each block's Output class
Output(b) ==
    CASE b = "FileStoreBlock" -> {"file_out"}
      [] b = "StoreValueBlock" -> {"output"}
      [] b = "PrintToConsoleBlock" -> {"output", "status"}
      [] b = "FindInDictionaryBlock" -> {"output", "missing"}
      [] b = "AddToDictionaryBlock" -> {"updated_dictionary", "error"}
      [] b = "AddToListBlock" -> {"updated_list", "error"}
      [] b = "FindInListBlock" -> {"index", "found", "not_found_value"}
      [] b = "NoteBlock" -> {"output"}
      [] b = "CreateDictionaryBlock" -> {"dictionary", "error"}
      [] b = "CreateListBlock" -> {"list", "error"}
      [] b = "UniversalTypeConverterBlock" -> {"value"}
      [] OTHER -> {}

----------------------------------------------------------------------------
(* Input domains *)

Scalars == {PyNone, PyInt(0), PyInt(1), PyBool(FALSE), PyStr(""), PyStr("x")}

Anything == Scalars \cup {PyList(<<>>), PyList(<<PyInt(1)>>), PyDict(EmptyMap)}

----------------------------------------------------------------------------
(* StoreValueBlock *)

StoreValueBlock_run(inp) ==
    Yielded(<<Event("output", PyOr(inp.data, inp.input))>>)

(* PrintToConsoleBlock *)

PrintToConsoleBlock_run(inp) ==
    Yielded(<<Event("output", inp.text), Event("status", PyStr("printed"))>>)

(* NoteBlock *)

NoteBlock_run(inp) ==
    Yielded(<<Event("output", inp.text)>>)

----------------------------------------------------------------------------
(* FindInDictionaryBlock *)

\* needle in hay for two texts; no text of the model is a proper substring
\* of another one, so containment is emptiness or equality
IsSubstring(needle, hay) == needle = "" \/ needle = hay

\* key in item: "yes", "no", or "raise" (TypeError) when item is no container
Contains(item, key) ==
    CASE item.t = "dict" ->
            IF key.t = "str" /\ key.s \in DOMAIN item.d THEN "yes" ELSE "no"
      [] item.t = "list" ->
            IF \E i \in 1..Len(item.l) : PyEq(item.l[i], key) THEN "yes" ELSE "no"
      [] item.t = "str" ->
            IF key.t # "str" THEN "raise"
            ELSE IF IsSubstring(key.s, item.s) THEN "yes" ELSE "no"
      [] OTHER -> "raise"

\* item[key]: only a dict is subscriptable by a text key; a list takes an
\* integer key; everything else raises
GetItem(item, key) ==
    CASE item.t = "dict" /\ key.t = "str" /\ key.s \in DOMAIN item.d ->
            [ok |-> TRUE, value |-> item.d[key.s], exc |-> ""]
      [] item.t = "dict" ->
            [ok |-> FALSE, value |-> PyNone, exc |-> "KeyError"]
      [] item.t = "list" /\ key.t = "int" /\ -Len(item.l) <= key.n /\ key.n < Len(item.l) ->
            [ok |-> TRUE,
             value |-> item.l[(IF key.n < 0 THEN key.n + Len(item.l) ELSE key.n) + 1],
             exc |-> ""]
      [] item.t = "list" /\ key.t = "int" ->
            [ok |-> FALSE, value |-> PyNone, exc |-> "IndexError"]
      [] OTHER ->
            [ok |-> FALSE, value |-> PyNone, exc |-> "TypeError"]

\* some attribute names the builtin types expose
BuiltinAttrs(t) ==
    CASE t = "dict" -> {"keys", "values", "items", "get"}
      [] t = "list" -> {"index", "count", "append"}
      [] t = "str" -> {"upper", "lower"}
      [] t \in {"int", "bool"} -> {"real"}
      [] OTHER -> {}

\* hasattr(val, name)
HasAttr(val, name) ==
    IF val.t = "obj" THEN name \in DOMAIN val.d ELSE name \in BuiltinAttrs(val.t)

\* getattr(val, name), for an attribute val has
GetAttr(val, name) ==
    IF val.t = "obj" THEN val.d[name]
    ELSE IF name = "real" THEN PyInt(val.n)
    ELSE Method(val, name)

\* json.loads(text) on the documents of the model; every other text is
\* malformed and the parser raises
JsonTexts ==
    {"{\"k1\": 1}", "{\"k2\": \"v1\"}", "[{\"k1\": \"v1\"}, {\"k2\": 1}]",
     "[{\"k1\": \"v1\"}, 1]", "[]", "1", "k1", ""}

JsonLoads(text) ==
    CASE text = "{\"k1\": 1}" ->
            [ok |-> TRUE, value |-> PyDict([k \in {"k1"} |-> PyInt(1)])]
      [] text = "{\"k2\": \"v1\"}" ->
            [ok |-> TRUE, value |-> PyDict([k \in {"k2"} |-> PyStr("v1")])]
      [] text = "[{\"k1\": \"v1\"}, {\"k2\": 1}]" ->
            [ok |-> TRUE,
             value |-> PyList(<<PyDict([k \in {"k1"} |-> PyStr("v1")]),
                                PyDict([k \in {"k2"} |-> PyInt(1)])>>)]
      [] text = "[{\"k1\": \"v1\"}, 1]" ->
            [ok |-> TRUE,
             value |-> PyList(<<PyDict([k \in {"k1"} |-> PyStr("v1")]), PyInt(1)>>)]
      [] text = "[]" -> [ok |-> TRUE, value |-> PyList(<<>>)]
      [] text = "1" -> [ok |-> TRUE, value |-> PyInt(1)]
      [] OTHER -> [ok |-> FALSE, value |-> PyNone]

\* [item[key] for item in obj if key in item]
Projection(items, key) ==
    LET Has(e) == Contains(e, key) = "yes"
        kept == SelectSeq(items, Has)
    IN IF \E i \in 1..Len(items) :
              \/ Contains(items[i], key) = "raise"
              \/ Contains(items[i], key) = "yes" /\ ~GetItem(items[i], key).ok
       THEN Raised(<<>>, "TypeError")
       ELSE Yielded(<<Event("output",
                PyList([i \in 1..Len(kept) |-> GetItem(kept[i], key).value]))>>)

\* [getattr(val, key) for val in obj if hasattr(val, key)]
AttrProjection(items, key) ==
    LET Has(e) == HasAttr(e, key.s)
        kept == SelectSeq(items, Has)
    IN Yielded(<<Event("output",
            PyList([i \in 1..Len(kept) |-> GetAttr(kept[i], key.s)]))>>)

FindInDictionaryBlock_run(inp) ==
    LET key == inp.key
        parsed == IF inp.input.t = "str"
                  THEN JsonLoads(inp.input.s)
                  ELSE [ok |-> TRUE, value |-> inp.input]
        obj == parsed.value
    IN IF ~parsed.ok THEN Raised(<<>>, "JSONDecodeError")
       ELSE IF obj.t = "dict" /\ Contains(obj, key) = "yes"
       THEN Yielded(<<Event("output", GetItem(obj, key).value)>>)
       ELSE IF obj.t = "list" /\ key.t = "int" /\ 0 <= key.n /\ key.n < Len(obj.l)
       THEN Yielded(<<Event("output", GetItem(obj, key).value)>>)
       ELSE IF obj.t = "list" /\ key.t = "str"
       THEN IF Len(obj.l) = 0
            THEN Yielded(<<Event("output", PyList(<<>>))>>)
            ELSE IF obj.l[1].t = "dict" /\ Contains(obj.l[1], key) = "yes"
            THEN Projection(obj.l, key)
            ELSE AttrProjection(obj.l, key)
       ELSE IF key.t = "str" /\ HasAttr(obj, key.s)
       THEN Yielded(<<Event("output", GetAttr(obj, key.s))>>)
       ELSE Yielded(<<Event("missing", inp.input)>>)

LookupLeaves == {PyInt(1), PyStr("v1")}

LookupDicts == {PyDict(f) : f \in DictsOver({"k1", "k2"}, LookupLeaves)}

MockObjects == {MockObject([a \in {"k1"} |-> PyStr("!!")])}

LookupElems ==
    {PyNone, PyInt(1), PyStr("k1"), PyList(<<PyStr("k1")>>)}
        \cup LookupDicts \cup MockObjects

LookupLists == {PyList(q) : q \in SeqsUpTo(LookupElems, MaxLookupLen)}

\* inputs that arrive as Python values
LookupInputs == LookupDicts \cup LookupLists \cup MockObjects \cup {PyNone, PyInt(1)}

\* inputs that arrive as text
LookupTexts == {PyStr(x) : x \in JsonTexts}

LookupKeys ==
    {PyStr(k) : k \in {"k1", "k2", "keys"}}
        \cup {PyInt(i) : i \in -1..(MaxLookupLen + 1)}

----------------------------------------------------------------------------
(* Heap containers: copy and in-place mutation *)

\* the container itself instead of a copy of it
Copy_alias(h, a) == [heap |-> h, ref |-> a]

\* container.copy(): a new container with the same items at a fresh address
Copy(h, a) == [heap |-> Append(h, h[a]), ref |-> Len(h) + 1]

\* f with key k bound to v
Assign(f, k, v) == [x \in DOMAIN f \cup {k} |-> IF x = k THEN v ELSE f[x]]

\* d[k] = v on the dict at address a
SetItem(h, a, k, v) == [h EXCEPT ![a] = PyDict(Assign(@.d, k, v))]

\* the entries set only the keys the dict does not hold yet
SetItems_keep(h, a, entries) ==
    [h EXCEPT ![a] =
        PyDict([x \in DOMAIN @.d \cup DOMAIN entries |->
                    IF x \in DOMAIN @.d THEN @.d[x] ELSE entries[x]])]

\* for key, value in entries.items(): d[key] = value, on the dict at address a
SetItems(h, a, entries) ==
    [h EXCEPT ![a] =
        PyDict([x \in DOMAIN @.d \cup DOMAIN entries |->
                    IF x \in DOMAIN entries THEN entries[x] ELSE @.d[x]])]

\* lst.append(v) on the list at address a
ListAppend(h, a, v) == [h EXCEPT ![a] = PyList(Append(@.l, v))]

\* lst += more on the list at address a
ListExtend(h, a, more) == [h EXCEPT ![a] = PyList(@.l \o more)]

----------------------------------------------------------------------------
(* AddToDictionaryBlock *)

\* input_data.value is not None and input_data.key
SinglePairGiven(inp) == inp.value # PyNone /\ Truthy(inp.key)

AddToDictionaryBlock_run(inp, h0) ==
    LET updated_dict == Copy(h0, inp.dictionary.n)
        h1 == IF SinglePairGiven(inp)
              THEN SetItem(updated_dict.heap, updated_dict.ref, inp.key.s, inp.value)
              ELSE updated_dict.heap
        h2 == SetItems(h1, updated_dict.ref, h1[inp.entries.n].d)
    IN [events |-> <<Event("updated_dictionary", Ref(updated_dict.ref))>>,
        raised |-> "", heap |-> h2]

MergeDicts == {PyDict(f) : f \in DictsOver({"k1", "k2"}, {PyStr("old"), PyInt(0)})}

MergeEntries == {PyDict(f) : f \in DictsOver({"k1", "k2"}, {PyStr("batch")})}

MergeKeys == {PyStr(""), PyStr("k1"), PyStr("k3")}

MergeValues == {PyNone, PyInt(0), PyStr("new")}

----------------------------------------------------------------------------
(* AddToListBlock *)

\* if input_data.entry:
EntryGiven(inp) == Truthy(inp.entry)

\* the position tested for truth, which takes position 0 for no position
PositionGiven_truthy(inp) == Truthy(inp.position)

\* (pos := input_data.position) is not None
PositionGiven(inp) == inp.position # PyNone

AddToListBlock_run(inp, h0) ==
    LET entries_added == Copy(h0, inp.entries.n)
        h1 == IF EntryGiven(inp)
              THEN ListAppend(entries_added.heap, entries_added.ref, inp.entry)
              ELSE entries_added.heap
        updated_list == Copy(h1, inp.list.n)
        h2 == updated_list.heap
        pos == inp.position.n
        spliced == SliceTo(h2[updated_list.ref].l, pos)
                       \o h2[entries_added.ref].l
                       \o SliceFrom(h2[updated_list.ref].l, pos)
    IN IF PositionGiven(inp)
       THEN [events |-> <<Event("updated_list", Ref(Len(h2) + 1))>>,
             raised |-> "", heap |-> Append(h2, PyList(spliced))]
       ELSE [events |-> <<Event("updated_list", Ref(updated_list.ref))>>,
             raised |-> "",
             heap |-> ListExtend(h2, updated_list.ref, h2[entries_added.ref].l)]

InsertLists == {PyList(q) : q \in SeqsUpTo({PyInt(1), PyStr("a")}, MaxLen)}

InsertEntries == {PyList(q) : q \in SeqsUpTo({PyInt(1), PyStr("f")}, 2)}

InsertEntry == {PyNone, PyInt(0), PyBool(FALSE), PyStr(""), PyStr("e"), PyList(<<>>)}

InsertPositions == {PyNone} \cup {PyInt(i) : i \in (-(MaxLen + 1))..(MaxLen + 1)}

----------------------------------------------------------------------------
(* FindInListBlock *)

\* the last position whose item equals value instead of the first
ListIndex_last(lst, value) ==
    IF \E i \in 1..Len(lst) : PyEq(lst[i], value)
    THEN [ok |-> TRUE,
          value |-> (CHOOSE i \in 1..Len(lst) :
                        /\ PyEq(lst[i], value)
                        /\ \A j \in (i + 1)..Len(lst) : ~PyEq(lst[j], value)) - 1]
    ELSE [ok |-> FALSE, value |-> 0]

\* lst.index(value): the first position whose item equals value, ValueError
\* when there is none
ListIndex(lst, value) ==
    IF \E i \in 1..Len(lst) : PyEq(lst[i], value)
    THEN [ok |-> TRUE,
          value |-> (CHOOSE i \in 1..Len(lst) :
                        /\ PyEq(lst[i], value)
                        /\ \A j \in 1..(i - 1) : ~PyEq(lst[j], value)) - 1]
    ELSE [ok |-> FALSE, value |-> 0]

FindInListBlock_run(inp) ==
    LET found == ListIndex(inp.list.l, inp.value)
    IN IF found.ok
       THEN Yielded(<<Event("index", PyInt(found.value)), Event("found", PyBool(TRUE))>>)
       ELSE Yielded(<<Event("found", PyBool(FALSE)), Event("not_found_value", inp.value)>>)

SearchItems == {PyInt(1), PyInt(2), PyBool(TRUE), PyStr("a")}

SearchLists == {PyList(q) : q \in SeqsUpTo(SearchItems, MaxLen)}

SearchValues == SearchItems \cup {PyInt(3), PyBool(FALSE), PyNone}

----------------------------------------------------------------------------
(* CreateDictionaryBlock *)

CreateDictionaryBlock_run(inp) ==
    Yielded(<<Event("dictionary", inp.values)>>)

----------------------------------------------------------------------------
(* CreateListBlock *)

\* a range that stops before a last, shorter step
Range_floor(stop, step) ==
    IF step < 0 \/ stop <= 0 THEN <<>>
    ELSE [j \in 1..(stop \div step) |-> (j - 1) * step]

\* list(range(0, stop, step)) for step # 0
Range(stop, step) ==
    IF step < 0 \/ stop <= 0 THEN <<>>
    ELSE [j \in 1..((stop + step - 1) \div step) |-> (j - 1) * step]

CreateListBlock_run(inp) ==
    LET values == inp.values.l
        max_size == PyOr(inp.max_size, PyInt(Len(values))).n
        starts == Range(Len(values), max_size)
    IN IF max_size = 0
       THEN Yielded(<<Event("error",
                PyStr("Failed to create list: range() arg 3 must not be zero"))>>)
       ELSE Yielded([j \in 1..Len(starts) |->
                Event("list",
                      PyList(Slice(values, ClampIndex(Len(values), starts[j]),
                                   ClampIndex(Len(values), starts[j] + max_size))))])

CreateValues == {PyList(q) : q \in SeqsUpTo({PyInt(1), PyStr("a")}, MaxLen)}

CreateMaxSizes == {PyNone} \cup {PyInt(i) : i \in -1..(MaxLen + 1)}

----------------------------------------------------------------------------
(* UniversalTypeConverterBlock *)

\* TypeOptions and the Python type each one selects
TypeOptions == {"string", "number", "boolean", "list", "dictionary"}

TargetType(option) ==
    CASE option = "string" -> "str"
      [] option = "number" -> "float"
      [] option = "boolean" -> "bool"
      [] option = "list" -> "list"
      [] option = "dictionary" -> "dict"

\* backend.util.type.convert(value, target): it returns the value coerced to
\* the target type or raises a conversion error; the coercion rules are the
\* collaborator's own, so the coerced value is opaque
Convert(value, target) ==
    {[ok |-> TRUE,
      value |-> [t |-> "coerced", n |-> 0, s |-> target, l |-> <<value>>, d |-> EmptyMap]],
     [ok |-> FALSE, value |-> PyNone]}

UniversalTypeConverterBlock_run(inp, converted_value) ==
    IF converted_value.ok
    THEN Yielded(<<Event("value", converted_value.value)>>)
    ELSE Yielded(<<Event("error", PyStr("Failed to convert value: conversion error"))>>)

----------------------------------------------------------------------------
(* FileStoreBlock *)

\* backend.util.file.store_media_file(graph_exec_id, file, return_content):
\* it returns the stored file's relative path, or its content as a data URI,
\* or raises
StoreMediaFile(file, return_content) ==
    {[ok |-> TRUE,
      value |-> IF return_content.n = 1 THEN PyStr("data:content") ELSE PyStr("path")],
     [ok |-> FALSE, value |-> PyNone]}

FileStoreBlock_run(inp, stored) ==
    IF stored.ok
    THEN Yielded(<<Event("file_out", stored.value)>>)
    ELSE Raised(<<>>, "Exception")

MediaFiles == {PyStr("https://host/a.png"), PyStr("data:image/png;base64,AA=="), PyStr("a.png")}

----------------------------------------------------------------------------
(* The invocation *)

Init ==
    /\ pc = "idle"
    /\ block = "none"
    /\ input_data = EmptyMap
    /\ events = <<>>
    /\ raised = ""
    /\ heap = <<>>
    /\ heap0 = <<>>

\* one invocation of a routine that touches no heap container
Invoke(b, inp, result) ==
    /\ pc = "idle"
    /\ pc' = "done"
    /\ block' = b
    /\ input_data' = inp
    /\ events' = result.events
    /\ raised' = result.raised
    /\ heap' = <<>>
    /\ heap0' = <<>>

RunStoreValue ==
    /\ pc = "idle"
    /\ \E i \in Anything, dt \in Anything :
        LET inp == [input |-> i, data |-> dt]
        IN Invoke("StoreValueBlock", inp, StoreValueBlock_run(inp))

RunPrintToConsole ==
    /\ pc = "idle"
    /\ \E tx \in Anything :
        LET inp == [text |-> tx]
        IN Invoke("PrintToConsoleBlock", inp, PrintToConsoleBlock_run(inp))

RunNote ==
    /\ pc = "idle"
    /\ \E tx \in {PyStr(""), PyStr("x")} :
        LET inp == [text |-> tx]
        IN Invoke("NoteBlock", inp, NoteBlock_run(inp))

RunFindInDictionary ==
    /\ pc = "idle"
    /\ \E i \in LookupInputs, k \in LookupKeys :
        LET inp == [input |-> i, key |-> k]
        IN Invoke("FindInDictionaryBlock", inp, FindInDictionaryBlock_run(inp))

RunFindInDictionaryText ==
    /\ pc = "idle"
    /\ \E i \in LookupTexts, k \in LookupKeys :
        LET inp == [input |-> i, key |-> k]
        IN Invoke("FindInDictionaryBlock", inp, FindInDictionaryBlock_run(inp))

\* one invocation of a routine that works on the caller's containers h0
InvokeOnHeap(b, inp, h0, result) ==
    /\ pc = "idle"
    /\ pc' = "done"
    /\ block' = b
    /\ input_data' = inp
    /\ events' = result.events
    /\ raised' = result.raised
    /\ heap' = result.heap
    /\ heap0' = h0

RunAddToDictionary ==
    /\ pc = "idle"
    /\ \E dc \in MergeDicts, en \in MergeEntries, k \in MergeKeys, v \in MergeValues :
        LET h0 == <<dc, en>>
            inp == [dictionary |-> Ref(1), entries |-> Ref(2), key |-> k, value |-> v]
        IN InvokeOnHeap("AddToDictionaryBlock", inp, h0, AddToDictionaryBlock_run(inp, h0))

RunAddToList ==
    /\ pc = "idle"
    /\ \E ls \in InsertLists, en \in InsertEntries, e \in InsertEntry, p \in InsertPositions :
        LET h0 == <<ls, en>>
            inp == [list |-> Ref(1), entries |-> Ref(2), entry |-> e, position |-> p]
        IN InvokeOnHeap("AddToListBlock", inp, h0, AddToListBlock_run(inp, h0))

RunFindInList ==
    /\ pc = "idle"
    /\ \E ls \in SearchLists, v \in SearchValues :
        LET inp == [list |-> ls, value |-> v]
        IN Invoke("FindInListBlock", inp, FindInListBlock_run(inp))

RunCreateDictionary ==
    /\ pc = "idle"
    /\ \E vs \in LookupDicts :
        LET inp == [values |-> vs]
        IN Invoke("CreateDictionaryBlock", inp, CreateDictionaryBlock_run(inp))

RunCreateList ==
    /\ pc = "idle"
    /\ \E vs \in CreateValues, m \in CreateMaxSizes :
        LET inp == [values |-> vs, max_size |-> m]
        IN Invoke("CreateListBlock", inp, CreateListBlock_run(inp))

RunUniversalTypeConverter ==
    /\ pc = "idle"
    /\ \E v \in Anything, ty \in TypeOptions :
        LET inp == [value |-> v, type |-> PyStr(ty)]
        IN \E converted_value \in Convert(v, TargetType(ty)) :
              Invoke("UniversalTypeConverterBlock", inp,
                     UniversalTypeConverterBlock_run(inp, converted_value))

RunFileStore ==
    /\ pc = "idle"
    /\ \E f \in MediaFiles, b64 \in {PyBool(FALSE), PyBool(TRUE)} :
        LET inp == [file_in |-> f, base_64 |-> b64]
        IN \E stored \in StoreMediaFile(f, b64) :
              Invoke("FileStoreBlock", inp, FileStoreBlock_run(inp, stored))

\* the host has consumed the event stream and discards the Input instance
Discard ==
    /\ pc = "done"
    /\ pc' = "idle"
    /\ block' = "none"
    /\ input_data' = EmptyMap
    /\ events' = <<>>
    /\ raised' = ""
    /\ heap' = <<>>
    /\ heap0' = <<>>

Next ==
    \/ RunStoreValue
    \/ RunPrintToConsole
    \/ RunNote
    \/ RunFindInDictionary
    \/ RunFindInDictionaryText
    \/ RunAddToDictionary
    \/ RunAddToList
    \/ RunFindInList
    \/ RunCreateDictionary
    \/ RunCreateList
    \/ RunUniversalTypeConverter
    \/ RunFileStore
    \/ Discard

Spec == Init /\ [][Next]_vars

----------------------------------------------------------------------------
(* Properties *)

Done(b) == pc = "done" /\ block = b

\* the value the dictionary lookup resolves against: the parsed document when
\* the input is the text of a well-formed JSON document, else the input
LookupObj ==
    IF input_data.input.t = "str" /\ JsonLoads(input_data.input.s).ok
    THEN JsonLoads(input_data.input.s).value
    ELSE input_data.input

\* the container an event's reference denotes
Deref(ev) == heap[ev.value.n]

\* C1: every event a block routine emits carries a name declared in that
\* block's Output schema, on the failure paths too.
C1_EventNamesDeclared ==
    \A i \in 1..Len(events) : events[i].name \in Output(block)

\* C2: the dictionary lookup emits exactly one event per invocation, chosen
\* by the first matching case: a mapping containing the key or a sequence with
\* an in-bounds integer key gives output = input[key]; a sequence with a text
\* key or an object exposing the attribute gives output; anything else gives
\* missing = the original input.
C2_LookupPriority ==
    Done("FindInDictionaryBlock") =>
        LET obj == LookupObj
            key == input_data.key
        IN /\ Len(events) = 1
           /\ IF obj.t = "dict" /\ key.t = "str" /\ key.s \in DOMAIN obj.d
              THEN events[1] = Event("output", obj.d[key.s])
              ELSE IF obj.t = "list" /\ key.t = "int" /\ 0 <= key.n /\ key.n < Len(obj.l)
              THEN events[1] = Event("output", obj.l[key.n + 1])
              ELSE IF obj.t = "list" /\ key.t = "str"
              THEN events[1].name = "output"
              ELSE IF key.t = "str" /\ HasAttr(obj, key.s)
              THEN events[1] = Event("output", GetAttr(obj, key.s))
              ELSE events[1] = Event("missing", input_data.input)

\* C3: for a sequence and a text key, an empty sequence gives output = [] and
\* a sequence whose first element is a mapping containing the key gives
\* output = the key's value of exactly the elements containing the key, in
\* order; an element lacking the key, whatever its shape, is skipped.
C3_Projection ==
    (Done("FindInDictionaryBlock") /\ LookupObj.t = "list" /\ input_data.key.t = "str") =>
        LET items == LookupObj.l
            key == input_data.key.s
            HasKey(e) == e.t = "dict" /\ key \in DOMAIN e.d
            kept == SelectSeq(items, HasKey)
        IN /\ Len(items) = 0 => events = <<Event("output", PyList(<<>>))>>
           /\ (Len(items) > 0 /\ HasKey(items[1])) =>
                 events = <<Event("output",
                             PyList([i \in 1..Len(kept) |-> kept[i].d[key]]))>>

\* C4: the dictionary lookup never propagates a failure, whatever the input
\* and the key.
C4_LookupNeverRaises ==
    Done("FindInDictionaryBlock") => raised = ""

\* C5: the store-value block emits exactly one output event, whose value is
\* data whenever data is not None and input when data is None.
C5_DataUnlessNone ==
    Done("StoreValueBlock") =>
        events = <<Event("output",
                         IF input_data.data # PyNone
                         THEN input_data.data ELSE input_data.input)>>

\* C6: the inserted batch is entries followed by entry whenever entry is not
\* None, so a non-null entry makes the updated list one longer than list and
\* entries together.
C6_BatchHasNonNullEntry ==
    (Done("AddToListBlock") /\ input_data.entry # PyNone) =>
        /\ Len(events) = 1
        /\ Len(Deref(events[1]).l) = Len(heap0[1].l) + Len(heap0[2].l) + 1
        /\ \E k \in 0..Len(heap0[1].l) :
              Deref(events[1]).l =
                  SubSeq(heap0[1].l, 1, k)
                      \o heap0[2].l \o <<input_data.entry>>
                      \o SubSeq(heap0[1].l, k + 1, Len(heap0[1].l))

\* C7: after a merge or an insert the caller's dictionary, list and entries
\* containers hold what they held before the call, and the emitted container
\* is none of them.
C7_CallerContainersUnchanged ==
    (Done("AddToDictionaryBlock") \/ Done("AddToListBlock")) =>
        /\ \A a \in 1..Len(heap0) : heap[a] = heap0[a]
        /\ \A i \in 1..Len(events) : events[i].value.n \notin 1..Len(heap0)

\* an insert that appended in place (no position) a batch holding the entry
C7_Witness ==
    /\ Done("AddToListBlock")
    /\ input_data.position = PyNone
    /\ EntryGiven(input_data)
    /\ Len(heap0[2].l) > 0
    /\ Deref(events[1]).l = heap0[1].l \o heap0[2].l \o <<input_data.entry>>

\* C8: the merge emits exactly one updated_dictionary: dictionary overlaid by
\* the single pair (iff value is not None and key is not empty) and then by
\* entries; a key of entries carries the entries value, else the single key
\* carries value, else the key keeps its dictionary value.
C8_MergePrecedence ==
    Done("AddToDictionaryBlock") =>
        LET dc == heap0[1].d
            en == heap0[2].d
            single == input_data.value # PyNone /\ input_data.key.s # ""
        IN /\ raised = ""
           /\ Len(events) = 1
           /\ events[1].name = "updated_dictionary"
           /\ LET out == Deref(events[1]).d
              IN /\ DOMAIN out = DOMAIN dc \cup DOMAIN en
                                   \cup (IF single THEN {input_data.key.s} ELSE {})
                 /\ \A x \in DOMAIN out :
                       out[x] = IF x \in DOMAIN en THEN en[x]
                                ELSE IF single /\ x = input_data.key.s
                                THEN input_data.value
                                ELSE dc[x]

\* a single pair whose key is in both dictionary and entries: entries wins
C8_Witness ==
    /\ Done("AddToDictionaryBlock")
    /\ SinglePairGiven(input_data)
    /\ input_data.key.s \in DOMAIN heap0[1].d \cap DOMAIN heap0[2].d
    /\ DOMAIN heap0[2].d # DOMAIN heap0[1].d
    /\ Deref(events[1]).d[input_data.key.s] = PyStr("batch")

\* the batch the insert built: entries_added, the copy of entries
Batch == heap[Len(heap0) + 1].l

\* C9: the insert emits exactly one updated_list.  With 0 <= position <=
\* len(list) it is list[0..position) ++ batch ++ list[position..), position 0
\* inserting at the front; with no position it is list ++ batch; for every
\* position the list's elements keep their order around the contiguous batch.
C9_InsertPlacement ==
    Done("AddToListBlock") =>
        LET ls == heap0[1].l
            pos == input_data.position
        IN /\ raised = ""
           /\ Len(events) = 1
           /\ events[1].name = "updated_list"
           /\ LET out == Deref(events[1]).l
              IN /\ (pos # PyNone /\ 0 <= pos.n /\ pos.n <= Len(ls)) =>
                       out = SubSeq(ls, 1, pos.n) \o Batch \o SubSeq(ls, pos.n + 1, Len(ls))
                 /\ pos = PyNone => out = ls \o Batch
                 /\ \E k \in 0..Len(ls) :
                       out = SubSeq(ls, 1, k) \o Batch \o SubSeq(ls, k + 1, Len(ls))

\* position 0 puts a two-element batch in front of a non-empty list
C9_Witness ==
    /\ Done("AddToListBlock")
    /\ input_data.position = PyInt(0)
    /\ Len(heap0[1].l) > 1
    /\ Len(Batch) = 2
    /\ Deref(events[1]).l = Batch \o heap0[1].l
    /\ Deref(events[1]).l # heap0[1].l \o Batch

\* C10: the list search emits exactly two events: index = the first position
\* holding value and then found = true when some element equals value, else
\* found = false and then not_found_value = value; nothing is raised.
C10_SearchEvents ==
    Done("FindInListBlock") =>
        LET ls == input_data.list.l
            value == input_data.value
            names == {events[i].name : i \in 1..Len(events)}
        IN /\ raised = ""
           /\ Len(events) = 2
           /\ Cardinality({i \in 1..Len(events) : events[i].name = "found"}) = 1
           /\ ~({"index", "not_found_value"} \subseteq names)
           /\ IF \E i \in 1..Len(ls) : PyEq(ls[i], value)
              THEN /\ events[1].name = "index"
                   /\ events[1].value.t = "int"
                   /\ events[1].value.n \in 0..(Len(ls) - 1)
                   /\ PyEq(ls[events[1].value.n + 1], value)
                   /\ \A j \in 1..events[1].value.n : ~PyEq(ls[j], value)
                   /\ events[2] = Event("found", PyBool(TRUE))
              ELSE events = <<Event("found", PyBool(FALSE)),
                              Event("not_found_value", value)>>

\* the value occurs twice, first at index 1
C10_Witness ==
    /\ Done("FindInListBlock")
    /\ Len(input_data.list.l) = 3
    /\ input_data.list.l[2] = input_data.value
    /\ input_data.list.l[3] = input_data.value
    /\ events = <<Event("index", PyInt(1)), Event("found", PyBool(TRUE))>>

\* C11: without a max_size the list creation emits exactly one event, list =
\* values, for every values list, the empty one too, and no error event.
C11_WholeListWhenUnset ==
    (Done("CreateListBlock") /\ input_data.max_size = PyNone) =>
        /\ raised = ""
        /\ events = <<Event("list", input_data.values)>>

\* the items of the emitted chunks, in emission order
RECURSIVE ConcatChunks(_)
ConcatChunks(evs) ==
    IF evs = <<>> THEN <<>> ELSE Head(evs).value.l \o ConcatChunks(Tail(evs))

\* n = ceil(a / m); no n is when m = 0
IsCeil(n, a, m) ==
    \/ m > 0 /\ (n - 1) * m < a /\ a <= n * m
    \/ m < 0 /\ (n - 1) * m > a /\ a >= n * m

\* the events are list events only, one per chunk: consecutive slices of
\* values of length max_size, the last one possibly shorter, none empty,
\* ceil(len(values) / max_size) of them, which concatenate to values
Chunked ==
    LET values == input_data.values.l
        m == input_data.max_size.n
        n == Len(events)
    IN /\ raised = ""
       /\ \A i \in 1..n : events[i].name = "list" /\ events[i].value.t = "list"
       /\ \A i \in 1..n :
             /\ Len(events[i].value.l) >= 1
             /\ Len(events[i].value.l) <= m
             /\ i < n => Len(events[i].value.l) = m
             /\ events[i].value.l =
                   SubSeq(values, (i - 1) * m + 1, (i - 1) * m + Len(events[i].value.l))
       /\ ConcatChunks(events) = values
       /\ IsCeil(n, Len(values), m)

\* C12 as stated: whenever max_size is set, the list creation emits only list
\* events, one per chunk in order: consecutive slices of values of length
\* max_size (only the last may be shorter, none empty), ceil(len(values) /
\* max_size) of them, concatenating to values.
C12_ChunkedWhenSet ==
    (Done("CreateListBlock") /\ input_data.max_size # PyNone) => Chunked

\* C12 as amended: the same, whenever max_size is set to a positive integer.
C12_ChunkedWhenPositive ==
    (Done("CreateListBlock") /\ input_data.max_size.t = "int"
        /\ input_data.max_size.n >= 1) => Chunked

\* three values in chunks of two: a full chunk and a shorter last one
C12_Witness ==
    /\ Done("CreateListBlock")
    /\ input_data.max_size = PyInt(2)
    /\ Len(input_data.values.l) = 3
    /\ input_data.values.l[2] # input_data.values.l[3]
    /\ Len(events) = 2
    /\ events[1].value.l = SubSeq(input_data.values.l, 1, 2)
    /\ events[2].value.l = SubSeq(input_data.values.l, 3, 3)

====
